---- MODULE Spec2Model ----
(***************************************************************************)
(* Attention framework of cmetzner93/attention_mechanisms.                 *)
(*                                                                         *)
(*   src/src/attention_modules/attention_mechanisms.py   class Attention   *)
(*   src/src/attention_modules/target_attention.py       TargetAttention   *)
(*                                                                         *)
(* Tensors are sequences of sequences of sequences (axis 0, 1, 2), indexed *)
(* from 1.  Their entries are exact rationals <<numerator, denominator>>   *)
(* with a positive denominator, kept in lowest terms.  The two             *)
(* transcendental functions of the code, exp (inside softmax and ELU) and  *)
(* sqrt, are replaced by exact stand-ins: ExpR is a positive, strictly     *)
(* increasing rational function with ExpR(0) = 1 and ExpR(-x) = 1/ExpR(x), *)
(* and SqrtInt is the exact root, used on perfect squares only.            *)
(***************************************************************************)
EXTENDS Integers, Sequences, FiniteSets, TLC

VARIABLES pc, cfg, disp, layer, call, out

vars == <<pc, cfg, disp, layer, call, out>>

(***************************************************************************)
(* Bounds of the model.                                                    *)
(***************************************************************************)
MaxBatch == 2
MaxSeq == 2
MaxHeads == 3

(* num_heads = None is written 0 *)
None == 0

NumLabelsChoices == {2}
EmbeddingDims == {1, 4}
LatentDims == {2, 4}
HeadChoices == {None} \cup (1..MaxHeads)
Seeds == {0, 1}

(***************************************************************************)
(* Exact rational arithmetic.                                              *)
(***************************************************************************)
Abs(n) == IF n < 0 THEN -n ELSE n

RECURSIVE GCD(_, _)
GCD(a, b) == IF b = 0 THEN a ELSE GCD(b, a % b)

Norm(n, d) ==
    IF d = 1 THEN <<n, 1>>
    ELSE LET g == GCD(Abs(n), Abs(d))
             s == IF d < 0 THEN -1 ELSE 1
         IN  <<(s * n) \div g, (s * d) \div g>>

R(n) == <<n, 1>>

RAdd(x, y) ==
    IF x[2] = y[2] THEN Norm(x[1] + y[1], x[2])
    ELSE Norm(x[1] * y[2] + y[1] * x[2], x[2] * y[2])

RMul(x, y) ==
    IF x[2] = 1 /\ y[2] = 1 THEN <<x[1] * y[1], 1>>
    ELSE Norm(x[1] * y[1], x[2] * y[2])

RDiv(x, y) == RMul(x, Norm(y[2], y[1]))

RECURSIVE RSum(_, _)
RSum(f, n) == IF n = 0 THEN R(0) ELSE RAdd(RSum(f, n - 1), f[n])

(* np.sqrt on an integer dimension: the integer root, exact on the perfect *)
(* squares of EmbeddingDims                                                *)
SqrtInt(n) == CHOOSE r \in 0..n : r * r <= n /\ (r + 1) * (r + 1) > n

(* stand-in for exp on rationals *)
ExpR(x) == IF x[1] >= 0 THEN Norm(x[2] + x[1], x[2]) ELSE Norm(x[2], x[2] - x[1])

(***************************************************************************)
(* Tensor operations of torch used by the forward passes.                  *)
(***************************************************************************)
Dim0(X) == Len(X)
Dim1(X) == Len(X[1])
Dim2(X) == Len(X[1][1])
Shape(X) == <<Dim0(X), Dim1(X), Dim2(X)>>

(* the tensor with the entries f[b][i][j], as nested tuples *)
RECURSIVE Tuple(_, _)
Tuple(f, n) == IF n = 0 THEN <<>> ELSE Append(Tuple(f, n - 1), f[n])

Tensor(f, n0, n1, n2) ==
    Tuple([b \in 1..n0 |-> Tuple([i \in 1..n1 |-> Tuple(f[b][i], n2)], n1)], n0)

(* X.permute(0, 2, 1) *)
Permute021(X) ==
    Tensor([b \in 1..Dim0(X) |-> [j \in 1..Dim2(X) |-> [i \in 1..Dim1(X) |-> X[b][i][j]]]],
           Dim0(X), Dim2(X), Dim1(X))

(* torch.bmm(X, Y): [b, n, k] x [b, k, m] -> [b, n, m] *)
BMM(X, Y) ==
    Tensor([b \in 1..Dim0(X) |-> [i \in 1..Dim1(X) |-> [j \in 1..Dim2(Y) |->
        RSum([k \in 1..Dim2(X) |-> RMul(X[b][i][k], Y[b][k][j])], Dim2(X))]]],
           Dim0(X), Dim1(X), Dim2(Y))

(* Q.matmul(Y) with a 2-D Q: [n, k] x [b, k, m] -> [b, n, m] (broadcast) *)
MatmulBroadcast(Q, Y) ==
    Tensor([b \in 1..Dim0(Y) |-> [i \in 1..Len(Q) |-> [j \in 1..Dim2(Y) |->
        RSum([k \in 1..Len(Q[1]) |-> RMul(Q[i][k], Y[b][k][j])], Len(Q[1]))]]],
           Dim0(Y), Len(Q), Dim2(Y))

(* nn.Conv1d with kernel_size=1: [b, c_in, s] -> [b, c_out, s] *)
Conv1d(W, bias, X) ==
    Tensor([b \in 1..Dim0(X) |-> [o \in 1..Len(W) |-> [s \in 1..Dim2(X) |->
        RAdd(RSum([c \in 1..Dim1(X) |-> RMul(W[o][c], X[b][c][s])], Dim1(X)), bias[o])]]],
           Dim0(X), Len(W), Dim2(X))

(* nn.Linear on the last axis: [b, n, d_in] -> [b, n, d_out] *)
Linear(W, bias, X) ==
    Tensor([b \in 1..Dim0(X) |-> [i \in 1..Dim1(X) |-> [o \in 1..Len(W) |->
        RAdd(RSum([k \in 1..Dim2(X) |-> RMul(X[b][i][k], W[o][k])], Dim2(X)), bias[o])]]],
           Dim0(X), Dim1(X), Len(W))

(* F.elu: x for x > 0, exp(x) - 1 otherwise *)
EluR(x) == IF x[1] > 0 THEN x ELSE RAdd(ExpR(x), R(-1))

Elu(X) ==
    Tensor([b \in 1..Dim0(X) |-> [i \in 1..Dim1(X) |-> [j \in 1..Dim2(X) |-> EluR(X[b][i][j])]]],
           Dim0(X), Dim1(X), Dim2(X))

(* X / c elementwise *)
DivScalar(X, c) ==
    Tensor([b \in 1..Dim0(X) |-> [i \in 1..Dim1(X) |-> [j \in 1..Dim2(X) |-> RDiv(X[b][i][j], R(c))]]],
           Dim0(X), Dim1(X), Dim2(X))

(* torch.unsqueeze(Q, dim=0).repeat(batch, 1, 1) *)
UnsqueezeRepeat(Q, batch) == Tuple([b \in 1..batch |-> Q], batch)

(* F.softmax(input=E, dim=-1): normalised exponentials along the last axis *)
SoftmaxOverLabels(E) ==
    Tensor([b \in 1..Dim0(E) |-> [i \in 1..Dim1(E) |-> [j \in 1..Dim2(E) |->
        RDiv(ExpR(E[b][i][j]),
             RSum([k \in 1..Dim1(E) |-> ExpR(E[b][k][j])], Dim1(E)))]]],
           Dim0(E), Dim1(E), Dim2(E))

Softmax(E) ==
    Tensor([b \in 1..Dim0(E) |-> [i \in 1..Dim1(E) |->
        LET w == Tuple([k \in 1..Dim2(E) |-> ExpR(E[b][i][k])], Dim2(E))
            z == RSum(w, Dim2(E))
        IN  [j \in 1..Dim2(E) |-> RDiv(w[j], z)]]],
           Dim0(E), Dim1(E), Dim2(E))

(***************************************************************************)
(* attention_modules/multihead_attention.py (transpose_qkv and             *)
(* transpose_output) is not among the available sources.  Both follow the  *)
(* head split and merge of the specification: the channel axis is cut into *)
(* num_heads contiguous groups that are stacked along the batch axis, and  *)
(* the merge is the exact inverse.                                         *)
(***************************************************************************)
SplitOk(X, num_heads) == num_heads # None /\ Dim2(X) % num_heads = 0

SplitError(X, num_heads) == IF num_heads = None THEN "TypeError" ELSE "RuntimeError"

(* [b, n, d] -> [b * num_heads, n, d / num_heads] *)
transpose_qkv(X, num_heads) ==
    LET w == Dim2(X) \div num_heads
    IN  Tensor([i \in 1..(Dim0(X) * num_heads) |-> [n \in 1..Dim1(X) |-> [j \in 1..w |->
            X[((i - 1) \div num_heads) + 1][n][((i - 1) % num_heads) * w + j]]]],
               Dim0(X) * num_heads, Dim1(X), w)

(* a merge that reads the stacked axis head-major instead of batch-major *)
transpose_outputHeadMajor(X, num_heads) ==
    LET w == Dim2(X)
        batch == Dim0(X) \div num_heads
    IN  Tensor([b \in 1..batch |-> [n \in 1..Dim1(X) |->
            [j \in 1..(num_heads * w) |->
                X[((j - 1) \div w) * batch + b][n][((j - 1) % w) + 1]]]],
               batch, Dim1(X), num_heads * w)

(* [b * num_heads, n, w] -> [b, n, num_heads * w] *)
transpose_output(X, num_heads) ==
    LET w == Dim2(X)
    IN  Tensor([b \in 1..(Dim0(X) \div num_heads) |-> [n \in 1..Dim1(X) |->
            [j \in 1..(num_heads * w) |->
                X[(b - 1) * num_heads + ((j - 1) \div w) + 1][n][((j - 1) % w) + 1]]]],
               Dim0(X) \div num_heads, Dim1(X), num_heads * w)

(***************************************************************************)
(* Parameters.  The code draws the weights at random (xavier_uniform_) and *)
(* training moves them, so any value may be met in a forward call; the     *)
(* model fixes one sample of small integers for each.                      *)
(***************************************************************************)
NoTensor == <<>>

(* self.K = nn.Conv1d(latent_doc_dim, latent_doc_dim, kernel_size=1) *)
K_weight(d) == [o \in 1..d |-> [c \in 1..d |-> R(IF o = c THEN 1 ELSE IF o < c THEN -1 ELSE 0)]]
K_bias(d) == [o \in 1..d |-> R(0)]

(* self.V = nn.Conv1d(latent_doc_dim, latent_doc_dim, kernel_size=1) *)
V_weight(d) == [o \in 1..d |-> [c \in 1..d |-> R(IF o >= c THEN 1 ELSE 0)]]
V_bias(d) == [o \in 1..d |-> R(1)]

(* self.Q_mat = nn.Linear(latent_doc_dim, num_labels): weight [num_labels, latent_doc_dim] *)
Q_mat_weight(n, d) == [i \in 1..n |-> [k \in 1..d |-> R(((i + 2 * k) % 3) - 1)]]

(* self.W_k, self.W_v, self.W_q = nn.Linear(latent_doc_dim, latent_doc_dim) *)
W_k_weight(d) == [o \in 1..d |-> [k \in 1..d |-> R(IF o = k THEN 1 ELSE IF k = o + 1 THEN 1 ELSE 0)]]
W_k_bias(d) == [o \in 1..d |-> R(0)]
W_v_weight(d) == [o \in 1..d |-> [k \in 1..d |-> R(IF o = k THEN 1 ELSE 0)]]
W_v_bias(d) == [o \in 1..d |-> R(o % 2)]
W_q_weight(d) == [o \in 1..d |-> [k \in 1..d |-> R(IF o = k THEN 1 ELSE IF o = k + 1 THEN -1 ELSE 0)]]
W_q_bias(d) == [o \in 1..d |-> R(0)]

(* self.MH_output = nn.Linear(latent_doc_dim, latent_doc_dim) *)
MH_output_weight(d) == [o \in 1..d |-> [k \in 1..d |-> R(IF o = k THEN 2 ELSE IF o < k THEN 1 ELSE 0)]]
MH_output_bias(d) == [o \in 1..d |-> R(1)]

(***************************************************************************)
(* TargetAttention.__init__: the fields of the variant object.  No         *)
(* argument is validated.                                                  *)
(***************************************************************************)
NoLayer == [class |-> "unset"]

(* The compute devices.  Tensors and modules are created on the cpu;       *)
(* device is the module-level global of target_attention.py, line 21, on   *)
(* a host with a GPU (without one every tensor is on the cpu).  The field  *)
(* device of a layer is where its registered parameters are, Q_device      *)
(* where the tensor attribute self.Q is.                                   *)
Devices == {"cpu", "cuda"}

device == "cuda"

TargetAttentionInit(num_labels, embedding_dim, latent_doc_dim, scale, multihead, num_heads) ==
    [class |-> "TargetAttention",
     num_labels |-> num_labels,
     embedding_dim |-> embedding_dim,
     latent_doc_dim |-> latent_doc_dim,
     scale |-> scale,
     multihead |-> multihead,
     num_heads |-> num_heads,
     K_alignment |-> NoTensor,
     Q_alignment |-> NoTensor,
     Q_mat |-> Q_mat_weight(num_labels, latent_doc_dim),
     Q |-> Q_mat_weight(num_labels, latent_doc_dim),
     device |-> "cpu",
     Q_device |-> "cpu"]

(***************************************************************************)
(* TargetAttention.forward.                                                *)
(***************************************************************************)
Raised(error) == [status |-> "raised", error |-> error]

(* K = F.elu(self.K(H)).permute(0, 2, 1) *)
KeyProjection(self, H) ==
    Permute021(Elu(Conv1d(K_weight(self.latent_doc_dim), K_bias(self.latent_doc_dim), H)))

(* V = F.elu(self.V(H)).permute(0, 2, 1) *)
ValueProjection(self, H) ==
    Permute021(Elu(Conv1d(V_weight(self.latent_doc_dim), V_bias(self.latent_doc_dim), H)))

(* the divisor of the energy scores when self._scale is set *)
ScaleDivisorLatent(self) == SqrtInt(self.latent_doc_dim)

ScaleDivisor(self) == SqrtInt(self.embedding_dim)

(* E = QK / np.sqrt(self._embedding_dim) if self._scale else QK *)
EnergyScores(self, QK) == IF self.scale THEN DivScalar(QK, ScaleDivisor(self)) ELSE QK

(* A = F.softmax(E, dim=-1); C = A V *)
AttendEnergy(E, V) == [E |-> E, A |-> Softmax(E), C |-> BMM(E, V)]

Attend(E, V) == LET A == Softmax(E) IN [E |-> E, A |-> A, C |-> BMM(A, V)]

(* the multi-head branch, lines 124-133 *)
MultiHeadBranch(self, K0, V0) ==
    LET d  == self.latent_doc_dim
        h  == self.num_heads
        Qr == UnsqueezeRepeat(self.Q, Dim0(K0))
        Kl == Linear(W_k_weight(d), W_k_bias(d), K0)
    IN  IF ~SplitOk(Kl, h) THEN Raised(SplitError(Kl, h))
        ELSE LET K == transpose_qkv(Kl, h)
                 V == transpose_qkv(Linear(W_v_weight(d), W_v_bias(d), V0), h)
                 Q == transpose_qkv(Linear(W_q_weight(d), W_q_bias(d), Qr), h)
                 r == Attend(EnergyScores(self, BMM(Q, Permute021(K))), V)
             IN  [status |-> "returned", Q |-> Q, K |-> K, V |-> V,
                  E |-> r.E, A |-> r.A, C |-> r.C]

(* the single-head branch, lines 135-149 *)
SingleHeadBranch(self, K0, V0) ==
    LET r == Attend(EnergyScores(self, MatmulBroadcast(self.Q, Permute021(K0))), V0)
    IN  [status |-> "returned", Q |-> self.Q, K |-> K0, V |-> V0,
         E |-> r.E, A |-> r.A, C |-> r.C]

(* forward(self, H): the locals at the return, or the exception raised.    *)
(* Conv1d rejects an input whose channel axis is not latent_doc_dim.       *)
ChannelsAcceptedUpTo(self, H) == Dim1(H) <= self.latent_doc_dim

(* nn.Conv1d(in_channels=latent_doc_dim) takes an input with exactly that  *)
(* many channels                                                           *)
ChannelsAccepted(self, H) == Dim1(H) = self.latent_doc_dim

TargetAttentionForward(self, H) ==
    IF ~ChannelsAccepted(self, H) THEN Raised("RuntimeError")
    ELSE LET K0 == KeyProjection(self, H)
             V0 == ValueProjection(self, H)
         IN  IF self.multihead THEN MultiHeadBranch(self, K0, V0)
             ELSE SingleHeadBranch(self, K0, V0)

(* the same, with the local Q written back to self.Q as well *)
TargetAttentionAfterStoresQ(self, r) ==
    IF r.status = "returned"
    THEN [self EXCEPT !.K_alignment = r.K, !.Q_alignment = r.Q, !.Q = r.Q]
    ELSE self

(* self.K_alignment = K; self.Q_alignment = Q *)
TargetAttentionAfter(self, r) ==
    IF r.status = "returned"
    THEN [self EXCEPT !.K_alignment = r.K, !.Q_alignment = r.Q]
    ELSE self

(***************************************************************************)
(* Inputs: document representations H [batch, channels, sequence] with     *)
(* entries in {-1, 0, 1}.                                                  *)
(***************************************************************************)
HEntry(b, c, s, seed) == ((c * (seed + 1) + s * (seed + 2) + b) % 3) - 1

MkH(batch, channels, seq, seed) ==
    Tensor([b \in 1..batch |-> [c \in 1..channels |-> [s \in 1..seq |-> R(HEntry(b, c, s, seed))]]],
           batch, channels, seq)

(* the inputs whose channel axis is latent_doc_dim *)
Inputs(channels) ==
    { MkH(batch, channels, seq, seed) :
        batch \in 1..MaxBatch, seq \in 1..MaxSeq, seed \in Seeds }

(* the inputs offered to the dispatcher: one per shape *)
DispatcherInputs(channels) ==
    { MkH(batch, channels, seq, 0) : batch \in 1..MaxBatch, seq \in 1..MaxSeq }

(***************************************************************************)
(* Configurations: the constructor arguments of Attention.  An external    *)
(* input (label_embedding_matrix, cat_embedding_matrix, code2cat_map) is   *)
(* either supplied (TRUE) or left at its default None (FALSE).             *)
(***************************************************************************)
VariantNames ==
    {"target", "self", "label", "alternate", "hierarchical_target", "hierarchical_label",
     "hierarchical_context", "hierarchical_double_attention", "context", "context_diff",
     "max_masked", "rank_masked"}

HierarchicalNames ==
    {"hierarchical_target", "hierarchical_label", "hierarchical_context",
     "hierarchical_double_attention"}

(* a name that is none of the variants *)
UnknownNames == {"none"}

ExternalInputs == {"label_embedding_matrix", "cat_embedding_matrix", "code2cat_map"}

(* num_cats and code2cat_map (lines 91 and 94): the number of categories   *)
(* and the category index of each label.  The maps offered send the first  *)
(* label to -1, 0, num_cats - 1 or num_cats and the other labels to 0;     *)
(* NoMap stands for the default None.                                      *)
NumCatsChoices == {2}

NoMap == <<>>

CatMaps ==
    { Tuple([i \in 1..n |-> IF i = 1 THEN v ELSE 0], n) :
        n \in NumLabelsChoices, v \in UNION { {-1, 0, k - 1, k} : k \in NumCatsChoices } }

Configs ==
    { c \in [att_module : VariantNames \cup UnknownNames,
             num_labels : NumLabelsChoices,
             embedding_dim : EmbeddingDims,
             latent_doc_dim : LatentDims,
             scale : BOOLEAN,
             multihead : BOOLEAN,
             num_heads : HeadChoices,
             num_cats : NumCatsChoices,
             code2cat_map : CatMaps \cup {NoMap},
             supplied : SUBSET ExternalInputs] :
        IF "code2cat_map" \in c.supplied
        THEN Len(c.code2cat_map) = c.num_labels
        ELSE c.code2cat_map = NoMap }

NoConfig == [att_module |-> "unset"]

(* the external inputs the constructor of a variant has a parameter for *)
InputsOf(att_module) ==
    CASE att_module = "label" -> {"label_embedding_matrix"}
      [] att_module = "hierarchical_label" -> ExternalInputs
      [] att_module \in {"hierarchical_target", "hierarchical_context",
                         "hierarchical_double_attention"} -> {"code2cat_map"}
      [] OTHER -> {}

(* the configurations offered to the dispatcher: an external input is      *)
(* supplied only to a variant that reads it, and the embedding dimension   *)
(* is the largest one                                                      *)
DispatcherConfigs ==
    { c \in Configs : /\ c.supplied \subseteq InputsOf(c.att_module)
                      /\ \A e \in EmbeddingDims : e <= c.embedding_dim }

(***************************************************************************)
(* The variant classes other than TargetAttention are not among the        *)
(* available sources.  Following the specification, their constructors     *)
(* reject a missing external input and a head count that is absent or does *)
(* not divide latent_doc_dim with ConfigurationError, and their forward    *)
(* runs the base attention algorithm on head-split Q, K, V.                *)
(***************************************************************************)
ClassNeeds(class) ==
    CASE class = "LabelAttention" -> {"label_embedding_matrix"}
      [] class = "HierarchicalLabelAttention" ->
            {"label_embedding_matrix", "cat_embedding_matrix", "code2cat_map"}
      [] class \in {"HierarchicalTargetAttention", "HierarchicalContextAttention",
                    "HierarchicalDoubleAttention"} -> {"code2cat_map"}
      [] OTHER -> {}

HeadsValid(c) == c.num_heads # None /\ c.latent_doc_dim % c.num_heads = 0

(* every label's category index is one of 0..num_cats-1 *)
MapInRange(c) ==
    \A i \in 1..Len(c.code2cat_map) : c.code2cat_map[i] \in 0..(c.num_cats - 1)

OtherVariantInit(class, c, passed) ==
    IF \/ ~(ClassNeeds(class) \subseteq passed)
       \/ c.multihead /\ ~HeadsValid(c)
       \/ "code2cat_map" \in ClassNeeds(class) /\ ~MapInRange(c)
    THEN Raised("ConfigurationError")
    ELSE [status |-> "returned",
          object |-> [TargetAttentionInit(c.num_labels, c.embedding_dim, c.latent_doc_dim,
                                          c.scale, c.multihead, c.num_heads)
                        EXCEPT !.class = class]]

OtherVariantForward(self, H) == TargetAttentionForward(self, H)

(***************************************************************************)
(* Attention.__init__                                                      *)
(***************************************************************************)
(* the if/elif chain on self._att_module, lines 116-212; no else branch *)
VariantClassCopied(att_module) ==
    CASE att_module = "target" -> "TargetAttention"
      [] att_module = "label" -> "LabelAttention"
      [] att_module = "alternate" -> "AlternateAttention"
      [] att_module = "hierarchical_target" -> "HierarchicalTargetAttention"
      [] att_module = "hierarchical_context" -> "HierarchicalContextAttention"
      [] att_module = "hierarchical_double_attention" -> "HierarchicalDoubleAttention"
      [] att_module = "hierarchical_label" -> "LabelAttention"
      [] att_module = "context" -> "ContextAttention"
      [] att_module = "context_diff" -> "ContextAttentionDiffInput"
      [] att_module = "max_masked" -> "MaxMaskedAttention"
      [] att_module = "rank_masked" -> "RankedMaskedAttention"
      [] OTHER -> "unset"

(* the branch of 'hierarchical_context' building the flat class *)
VariantClassFlatContext(att_module) ==
    CASE att_module = "target" -> "TargetAttention"
      [] att_module = "label" -> "LabelAttention"
      [] att_module = "alternate" -> "AlternateAttention"
      [] att_module = "hierarchical_target" -> "HierarchicalTargetAttention"
      [] att_module = "hierarchical_context" -> "ContextAttention"
      [] att_module = "hierarchical_double_attention" -> "HierarchicalDoubleAttention"
      [] att_module = "hierarchical_label" -> "HierarchicalLabelAttention"
      [] att_module = "context" -> "ContextAttention"
      [] att_module = "context_diff" -> "ContextAttentionDiffInput"
      [] att_module = "max_masked" -> "MaxMaskedAttention"
      [] att_module = "rank_masked" -> "RankedMaskedAttention"
      [] OTHER -> "unset"

VariantClass(att_module) ==
    CASE att_module = "target" -> "TargetAttention"
      [] att_module = "label" -> "LabelAttention"
      [] att_module = "alternate" -> "AlternateAttention"
      [] att_module = "hierarchical_target" -> "HierarchicalTargetAttention"
      [] att_module = "hierarchical_context" -> "HierarchicalContextAttention"
      [] att_module = "hierarchical_double_attention" -> "HierarchicalDoubleAttention"
      [] att_module = "hierarchical_label" -> "HierarchicalLabelAttention"
      [] att_module = "context" -> "ContextAttention"
      [] att_module = "context_diff" -> "ContextAttentionDiffInput"
      [] att_module = "max_masked" -> "MaxMaskedAttention"
      [] att_module = "rank_masked" -> "RankedMaskedAttention"
      [] OTHER -> "unset"

(* the external inputs each branch hands to the variant's constructor *)
PassedInputs(att_module, c) == c.supplied \cap InputsOf(att_module)

NoDispatcher == [constructed |-> FALSE]

(* the dispatcher's fields after lines 97-114 *)
DispatcherFields(c) ==
    [constructed |-> TRUE,
     att_module |-> c.att_module,
     multihead |-> c.multihead,
     num_heads |-> c.num_heads,
     latent_doc_dim |-> c.latent_doc_dim,
     has_MH_output |-> c.multihead,
     Q |-> NoTensor]

(* The constructor's outcome: the exception it raises or the two objects.  *)
(* Line 123 reads self.attention_layer.Q.weight, and TargetAttention.Q is  *)
(* a tensor (Q_mat.weight.clone()), which has no attribute weight.         *)
AttentionInit(c) ==
    LET class == VariantClass(c.att_module)
    IN  CASE class = "unset" ->
               [status |-> "returned", disp |-> DispatcherFields(c), layer |-> NoLayer]
          [] class = "TargetAttention" -> Raised("AttributeError")
          [] OTHER ->
               LET v == OtherVariantInit(class, c, PassedInputs(c.att_module, c))
               IN  IF v.status = "raised" THEN v
                   ELSE [status |-> "returned", disp |-> DispatcherFields(c),
                         layer |-> v.object]

(***************************************************************************)
(* Attention.forward, lines 231-243, in the steps it takes.                *)
(***************************************************************************)
NoResult == [status |-> "none"]

NoDevices == [H |-> "cpu", Q |-> "cpu", params |-> "cpu"]

NoCall == [H |-> NoTensor, steps |-> <<>>, heads |-> NoResult, C |-> NoTensor, A |-> NoTensor,
           devices |-> NoDevices]

(* self.attention_layer(H=H): the variant's forward *)
VariantForward(self, H) ==
    IF self.class = "TargetAttention" THEN TargetAttentionForward(self, H)
    ELSE OtherVariantForward(self, H)

(* Lines 232-236 and 241-242: what the call of the variant yields.  A      *)
(* dispatcher without attention_layer raises AttributeError on the         *)
(* attribute; in the single-head branch Q is bound for 'target' only, and  *)
(* TargetAttention.forward takes no argument Q.                            *)
InvokeOutcome(d, self, H) ==
    IF self.class = "unset" THEN Raised("AttributeError")
    ELSE IF d.multihead THEN VariantForward(self, H)
    ELSE IF d.att_module # "target" THEN Raised("UnboundLocalError")
    ELSE Raised("TypeError")

(* C = self.MH_output(C), line 239 *)
MH_outputSkipped(d, C) == C

MH_output(d, C) == Linear(MH_output_weight(d.latent_doc_dim), MH_output_bias(d.latent_doc_dim), C)

Init ==
    /\ pc = "new"
    /\ cfg = NoConfig
    /\ disp = NoDispatcher
    /\ layer = NoLayer
    /\ call = NoCall
    /\ out = NoResult

(* Attention(...) *)
Construct ==
    /\ pc = "new"
    /\ \E c \in DispatcherConfigs :
          LET r == AttentionInit(c)
          IN  /\ cfg' = c
              /\ IF r.status = "raised"
                 THEN pc' = "failed" /\ out' = r /\ disp' = NoDispatcher /\ layer' = NoLayer
                 ELSE pc' = "ready" /\ out' = NoResult /\ disp' = r.disp /\ layer' = r.layer
    /\ UNCHANGED call

(* forward(H) up to the return of the variant *)
InvokeVariant ==
    /\ pc = "ready"
    /\ \E H \in DispatcherInputs(cfg.latent_doc_dim) :
          LET r == InvokeOutcome(disp, layer, H)
          IN  IF r.status = "raised"
              THEN /\ pc' = "ready"
                   /\ out' = r
                   /\ call' = [NoCall EXCEPT !.H = H]
                   /\ UNCHANGED layer
              ELSE /\ pc' = IF disp.multihead THEN "merge" ELSE "ready"
                   /\ out' = IF disp.multihead THEN NoResult
                             ELSE [status |-> "returned", C |-> r.C, A |-> r.A]
                   /\ call' = [H |-> H, steps |-> <<"variant">>, heads |-> r,
                               C |-> r.C, A |-> r.A]
                   /\ layer' = TargetAttentionAfter(layer, r)
    /\ UNCHANGED <<cfg, disp>>

(* C = transpose_output(C, num_heads); A = transpose_output(A, num_heads) *)
MergeHeads ==
    /\ pc = "merge"
    /\ call' = [call EXCEPT !.C = transpose_output(call.C, disp.num_heads),
                            !.A = transpose_output(call.A, disp.num_heads),
                            !.steps = Append(Append(@, "merge_C"), "merge_A")]
    /\ pc' = "project"
    /\ UNCHANGED <<cfg, disp, layer, out>>

(* C = self.MH_output(C); return C, A *)
OutputProjection ==
    /\ pc = "project"
    /\ LET C == MH_output(disp, call.C)
       IN  /\ call' = [call EXCEPT !.C = C, !.steps = Append(@, "project_C")]
           /\ out' = [status |-> "returned", C |-> C, A |-> call.A]
    /\ pc' = "ready"
    /\ UNCHANGED <<cfg, disp, layer>>

Next == Construct \/ InvokeVariant \/ MergeHeads \/ OutputProjection

Spec == Init /\ [][Next]_vars

(***************************************************************************)
(* The target variant on its own: TargetAttention(...) and its forward.    *)
(***************************************************************************)
(* num_heads keeps its default None when multihead is off *)
TargetConfigs ==
    { c \in Configs : /\ c.att_module = "target"
                      /\ c.supplied = {}
                      /\ (~c.multihead => c.num_heads = None) }

InitTarget ==
    /\ pc = "layer"
    /\ cfg \in TargetConfigs
    /\ disp = NoDispatcher
    /\ layer = TargetAttentionInit(cfg.num_labels, cfg.embedding_dim, cfg.latent_doc_dim,
                                   cfg.scale, cfg.multihead, cfg.num_heads)
    /\ call = NoCall
    /\ out = NoResult

(* self.attention_layer(H) *)
TargetCall ==
    /\ pc = "layer"
    /\ \E H \in Inputs(cfg.latent_doc_dim) :
          LET r == TargetAttentionForward(layer, H)
          IN  /\ out' = r
              /\ call' = [NoCall EXCEPT !.H = H, !.steps = <<"variant">>]
              /\ layer' = TargetAttentionAfter(layer, r)
    /\ UNCHANGED <<pc, cfg, disp>>

NextTarget == TargetCall

SpecTarget == InitTarget /\ [][NextTarget]_vars

(***************************************************************************)
(* Properties of TargetAttention.forward, checked under SpecTarget.        *)
(***************************************************************************)
Returned == out.status = "returned"

(* the query row the energy of (b, n) is computed from: Q is [n, d] in the *)
(* single-head branch and [batch * heads, n, d / heads] in the other       *)
QueryRow(b, n) == IF cfg.multihead THEN out.Q[b][n] ELSE out.Q[n]

(* the sum over the channel axis of Q[b][n][k] * K[b][s][k] *)
Dot(b, n, s) ==
    RSum([k \in 1..Dim2(out.K) |-> RMul(QueryRow(b, n)[k], out.K[b][s][k])], Dim2(out.K))

RowSum(row) == RSum(row, Len(row))

(* C1: every row of the attention matrix A returned by the target variant  *)
(* (one batch element or head, one label) has only non-negative entries    *)
(* and sums to 1, with multihead and scale on or off.                      *)
C1_RowsAreDistributions ==
    Returned =>
        \A b \in 1..Dim0(out.A) : \A n \in 1..Dim1(out.A) :
            /\ \A s \in 1..Dim2(out.A) : out.A[b][n][s][1] >= 0 /\ out.A[b][n][s][2] > 0
            /\ RowSum(out.A[b][n]) = R(1)

C1_Witness ==
    /\ Returned
    /\ cfg.multihead /\ cfg.num_heads = 2 /\ cfg.scale
    /\ Dim2(out.A) = 2
    /\ out.A[1][1][1] # out.A[1][1][2]
    /\ out.A[1][1] # out.A[1][2]

C5_ScaledBySqrtEmbeddingDim ==
    Returned =>
        \A b \in 1..Dim0(out.E) : \A n \in 1..Dim1(out.E) : \A s \in 1..Dim2(out.E) :
            IF cfg.scale
            THEN RMul(out.E[b][n][s], R(SqrtInt(cfg.embedding_dim))) = Dot(b, n, s)
            ELSE out.E[b][n][s] = Dot(b, n, s)

C5_Witness ==
    /\ Returned
    /\ cfg.scale /\ cfg.embedding_dim = 4 /\ cfg.latent_doc_dim = 2
    /\ cfg.multihead /\ cfg.num_heads = 2
    /\ \E b \in 1..Dim0(out.E) : out.E[b][1][1][1] # 0 /\ out.E[b][1][1] # Dot(b, 1, 1)

(***************************************************************************)
(* Properties of the dispatcher, checked under Spec.                       *)
(***************************************************************************)
Configured == cfg.att_module # "unset"

ConstructionFailed == pc = "failed"

(* every external input the variant reads is supplied, and the head count  *)
(* is usable when multihead is on                                          *)
ValidConfig ==
    /\ Configured
    /\ InputsOf(cfg.att_module) \subseteq cfg.supplied
    /\ cfg.multihead => HeadsValid(cfg)

(* C2: with variant 'target' and multihead off, the dispatcher is built    *)
(* and forward(H) completes without raising and returns C of shape         *)
(* [batch, num_labels, latent_doc_dim] and A of shape                      *)
(* [batch, num_labels, sequence].                                          *)
C2_SingleHeadTargetReturns ==
    (Configured /\ cfg.att_module = "target" /\ ~cfg.multihead) =>
        /\ ~ConstructionFailed
        /\ out.status # "raised"
        /\ Returned =>
              /\ Shape(out.C) = <<Dim0(call.H), cfg.num_labels, cfg.latent_doc_dim>>
              /\ Shape(out.A) = <<Dim0(call.H), cfg.num_labels, Dim2(call.H)>>

(* C3: for each of the 12 variant names the constructed dispatcher holds   *)
(* exactly one variant implementation, and every forward call, multihead   *)
(* on or off, invokes it exactly once and returns its (C, A).              *)
C3_OneVariantInvokedOnce ==
    (ValidConfig /\ cfg.att_module \in VariantNames) =>
        /\ ~ConstructionFailed
        /\ disp.constructed => layer.class = VariantClass(cfg.att_module) /\ layer.class # "unset"
        /\ out.status # "raised"
        /\ Returned => Len(SelectSeq(call.steps, LAMBDA x : x = "variant")) = 1

(* C6: a variant_name that is none of the recognized variants makes the    *)
(* construction fail with ConfigurationError, and no dispatcher without a  *)
(* selected variant is ever produced.                                      *)
C6_UnknownVariantRejected ==
    /\ (Configured /\ cfg.att_module \notin VariantNames) =>
            ConstructionFailed /\ out = Raised("ConfigurationError")
    /\ disp.constructed => layer.class # "unset"

(* C7: with multihead on, a head count that is absent or does not divide   *)
(* latent_doc_dim makes the construction fail with ConfigurationError or   *)
(* an assertion error; it is never met first in a forward call.            *)
C7_BadHeadCountRejected ==
    (Configured /\ cfg.att_module \in VariantNames /\ cfg.multihead /\ ~HeadsValid(cfg)) =>
        /\ ConstructionFailed
        /\ out.status = "raised" /\ out.error \in {"ConfigurationError", "AssertionError"}

(* C8: the construction fails with ConfigurationError when a hierarchical  *)
(* variant gets no label-to-category map, or 'label' or                    *)
(* 'hierarchical_label' gets no embedding matrix it is seeded from.        *)
MissingExternalInput ==
    \/ cfg.att_module \in HierarchicalNames /\ "code2cat_map" \notin cfg.supplied
    \/ cfg.att_module \in {"label", "hierarchical_label"}
          /\ "label_embedding_matrix" \notin cfg.supplied
    \/ cfg.att_module = "hierarchical_label" /\ "cat_embedding_matrix" \notin cfg.supplied

ForwardSteps == <<"variant", "merge_C", "merge_A", "project_C">>

C9_MergeThenProject ==
    (disp.constructed /\ disp.multihead) =>
        LET merged_C == transpose_output(call.heads.C, disp.num_heads)
            merged_A == transpose_output(call.heads.A, disp.num_heads)
        IN  /\ pc = "merge" => call.steps = SubSeq(ForwardSteps, 1, 1)
            /\ pc = "project" =>
                  /\ call.steps = SubSeq(ForwardSteps, 1, 3)
                  /\ call.C = merged_C /\ call.A = merged_A
            /\ Returned =>
                  /\ call.steps = ForwardSteps
                  /\ out.C = Linear(MH_output_weight(disp.latent_doc_dim),
                                    MH_output_bias(disp.latent_doc_dim), merged_C)
                  /\ out.A = merged_A

C9_Witness ==
    /\ disp.constructed /\ disp.multihead /\ disp.num_heads = 2
    /\ Returned
    /\ call.steps = ForwardSteps
    /\ out.C # transpose_output(call.heads.C, disp.num_heads)
    /\ out.A # call.heads.A

(* C10: in multi-head mode with num_heads dividing latent_doc_dim,         *)
(* forward(H) returns C of shape [batch, num_labels, latent_doc_dim] and A *)
(* of shape [batch, num_labels, sequence], as in single-head mode.         *)
C10_MultiHeadShapes ==
    (disp.constructed /\ disp.multihead /\ HeadsValid(cfg) /\ Returned) =>
        /\ Shape(out.C) = <<Dim0(call.H), cfg.num_labels, cfg.latent_doc_dim>>
        /\ Shape(out.A) = <<Dim0(call.H), cfg.num_labels, Dim2(call.H)>>

(***************************************************************************)
(* The head split and merge on their own: an array x [batch, n, d] is      *)
(* split as forward splits W_k(K), W_v(V) and W_q(Q) (target_attention.py  *)
(* lines 125-127) and merged as Attention.forward merges C and A           *)
(* (attention_mechanisms.py lines 237-238).                                *)
(***************************************************************************)
ReshapeArrays ==
    { MkH(batch, n, d, seed) :
        batch \in 1..MaxBatch, n \in 1..MaxSeq, d \in LatentDims, seed \in Seeds }

InitReshape ==
    /\ pc = "x"
    /\ cfg \in [num_heads : 1..MaxHeads]
    /\ disp = NoDispatcher
    /\ layer = NoLayer
    /\ call \in { [NoCall EXCEPT !.H = x] : x \in ReshapeArrays }
    /\ out = NoResult

(* transpose_qkv(x, num_heads) *)
SplitHeads ==
    /\ pc = "x"
    /\ IF SplitOk(call.H, cfg.num_heads)
       THEN /\ pc' = "split"
            /\ call' = [call EXCEPT !.C = transpose_qkv(call.H, cfg.num_heads),
                                    !.steps = <<"split">>]
            /\ UNCHANGED out
       ELSE /\ pc' = "failed"
            /\ out' = Raised(SplitError(call.H, cfg.num_heads))
            /\ UNCHANGED call
    /\ UNCHANGED <<cfg, disp, layer>>

(* transpose_output(X, num_heads) of the split array *)
MergeSplit ==
    /\ pc = "split"
    /\ pc' = "merged"
    /\ call' = [call EXCEPT !.steps = Append(@, "merge")]
    /\ out' = [status |-> "returned", C |-> transpose_output(call.C, cfg.num_heads),
               A |-> NoTensor]
    /\ UNCHANGED <<cfg, disp, layer>>

NextReshape == SplitHeads \/ MergeSplit

SpecReshape == InitReshape /\ [][NextReshape]_vars

(* C11: for x of shape [batch, n, d] and a head count H dividing d, the    *)
(* split has shape [batch*H, n, d/H] and merging the split array gives     *)
(* back exactly x.                                                         *)
C11_MergeInvertsSplit ==
    /\ pc \in {"split", "merged"} =>
          Shape(call.C) = <<Dim0(call.H) * cfg.num_heads, Dim1(call.H),
                            Dim2(call.H) \div cfg.num_heads>>
    /\ pc = "merged" => out.C = call.H

C11_Witness ==
    /\ pc = "merged"
    /\ cfg.num_heads = 2
    /\ Shape(call.H) = <<2, 2, 4>>
    /\ call.C # call.H
    /\ out.C = call.H

WithoutAlignment(self) == [self EXCEPT !.K_alignment = NoTensor, !.Q_alignment = NoTensor]

MaxUpdates == 2

TrainedConfigs ==
    { c \in TargetConfigs : ~c.scale /\ \A e \in EmbeddingDims : e <= c.embedding_dim }

(* number of updates applied so far: each moves every entry by one *)
Updates(self) ==
    self.Q_mat[1][1][1] - Q_mat_weight(self.num_labels, self.latent_doc_dim)[1][1][1]

InitTrained ==
    /\ pc = "layer"
    /\ cfg \in TrainedConfigs
    /\ disp = NoDispatcher
    /\ layer = TargetAttentionInit(cfg.num_labels, cfg.embedding_dim, cfg.latent_doc_dim,
                                   cfg.scale, cfg.multihead, cfg.num_heads)
    /\ call = NoCall
    /\ out = NoResult

(* optimizer.step(): the parameter Q_mat.weight changes in place *)
OptimizerStep ==
    /\ pc = "layer"
    /\ Updates(layer) < MaxUpdates
    /\ layer' = [layer EXCEPT !.Q_mat =
                    Tuple([i \in 1..Len(@) |->
                             Tuple([k \in 1..Len(@[i]) |-> RAdd(@[i][k], R(1))], Len(@[i]))],
                          Len(@))]
    /\ UNCHANGED <<pc, cfg, disp, call, out>>

NextTrained == TargetCall \/ OptimizerStep

SpecTrained == InitTrained /\ [][NextTrained]_vars

(* the query forward derives from a query matrix Q for a batch of size b:  *)
(* Q itself, or with multihead the head split of W_q(Q) repeated b times   *)
QueryFrom(Q, b) ==
    IF cfg.multihead
    THEN transpose_qkv(Linear(W_q_weight(cfg.latent_doc_dim), W_q_bias(cfg.latent_doc_dim),
                              UnsqueezeRepeat(Q, b)), cfg.num_heads)
    ELSE Q

(* C13: in every interleaving of optimizer updates of the query parameter  *)
(* with forward calls, the query matrix a forward call uses is the current *)
(* value of the trainable parameter, not its value at construction.        *)
(* A step that leaves the parameter alone is a forward call.               *)
C13_ForwardUsesCurrentQuery ==
    [][ (layer'.Q_mat = layer.Q_mat /\ out'.status = "returned") =>
            out'.Q = QueryFrom(layer.Q_mat, Dim0(call'.H)) ]_vars

(***************************************************************************)
(* The target variant called with any input: H of any channel count, on    *)
(* any device, on a layer moved between devices by model.to (main.py line  *)
(* 303).  nn.Module.to moves the registered parameters; self.Q is a plain  *)
(* tensor attribute and stays where it was created.                        *)
(***************************************************************************)
(* channel counts offered for a layer of latent_doc_dim d *)
ChannelChoices(d) == {d - 1, d, d + 1}

(* every shape with the configured channel count, and the smallest shape   *)
(* with each of the other channel counts                                   *)
AnyInputs(d) ==
    DispatcherInputs(d) \cup { MkH(1, channels, 1, 0) : channels \in ChannelChoices(d) }

(* Q = self.Q; Q.to(device): the tensor returned by .to is dropped, Q is   *)
(* still the tensor of self.Q                                             *)
QueryDevice(self, dev) == self.Q_device

(* the devices of the operands when the attention is computed *)
DevicesAtCall(self, H_device) ==
    [H |-> H_device, Q |-> QueryDevice(self, device), params |-> self.device]

(* forward on an input that is on H_device: the convolutions, the linear   *)
(* maps and the matrix products raise RuntimeError on operands of          *)
(* different devices                                                       *)
PlacedForward(self, H, H_device) ==
    LET d == DevicesAtCall(self, H_device)
    IN  IF d.params # d.H THEN Raised("RuntimeError")
        ELSE IF ~ChannelsAccepted(self, H) THEN Raised("RuntimeError")
        ELSE IF d.Q # d.params THEN Raised("RuntimeError")
        ELSE TargetAttentionForward(self, H)

(* model.to(device=...) *)
ModuleTo ==
    /\ pc = "layer"
    /\ \E dev \in Devices : layer' = [layer EXCEPT !.device = dev]
    /\ UNCHANGED <<pc, cfg, disp, call, out>>

(* self.attention_layer(H) with H on some device *)
PlacedCall ==
    /\ pc = "layer"
    /\ \E H \in AnyInputs(cfg.latent_doc_dim), H_device \in Devices :
          LET r == PlacedForward(layer, H, H_device)
          IN  /\ out' = r
              /\ call' = [NoCall EXCEPT !.H = H, !.steps = <<"variant">>,
                                        !.devices = DevicesAtCall(layer, H_device)]
              /\ layer' = TargetAttentionAfter(layer, r)
    /\ UNCHANGED <<pc, cfg, disp>>

NextPlaced == ModuleTo \/ PlacedCall

SpecPlaced == InitTrained /\ [][NextPlaced]_vars

Called == call.steps # <<>>

(* C14: a forward call whose input has a channel axis different from       *)
(* latent_doc_dim is rejected at call time with ShapeMismatchError, and no *)
(* (C, A) is returned for it.                                              *)
C14_ShapeMismatchError ==
    (Called /\ Dim1(call.H) # cfg.latent_doc_dim) => out = Raised("ShapeMismatchError")

(* C14 as amended: such a call of the target variant is rejected at call   *)
(* time with the RuntimeError of the convolution, and no (C, A) is         *)
(* returned for it.                                                        *)
C14_MismatchRaisesRuntimeError ==
    (Called /\ Dim1(call.H) # cfg.latent_doc_dim) => out = Raised("RuntimeError")

C14_Witness ==
    /\ Called
    /\ Dim1(call.H) < cfg.latent_doc_dim
    /\ call.devices = NoDevices
    /\ out = Raised("RuntimeError")

(* C15: before the attention computation of each forward call, the query   *)
(* matrix and the other parameters used in the call are on the device of   *)
(* the input H, whatever device H is on.                                   *)
C15_OperandsOnDeviceOfInput ==
    Called => call.devices.Q = call.devices.H /\ call.devices.params = call.devices.H

MaxEpochs == 4

MaxPatience == 2

MaxLoss == 2

(* the values of scores['loss']: finite losses, and nan, which np.mean     *)
(* gives for a loader without batches or a diverged model                  *)
NaN == 0

Inf == MaxLoss + 1

Losses == (1..MaxLoss) \cup {NaN}

(* a < b on floats: false whenever an operand is nan *)
Less(a, b) == a # NaN /\ b # NaN /\ a < b

NoFile == -1

Untrained == -1

(* the calls of train: epochs and patience of train_kwargs, the epoch to   *)
(* start at (default 0) and whether a validation loader is given           *)
TrainArgs ==
    { a \in [epochs : 1..MaxEpochs, patience : 1..MaxPatience, epoch : 0..1,
             val_loader : BOOLEAN] : a.epoch < a.epochs }

(* lines 62-72, up to the first test of the loop *)
InitTrain ==
    /\ pc = "batches"
    /\ cfg \in TrainArgs
    /\ call = [epoch |-> cfg.epoch, best_val_loss |-> Inf, patience_counter |-> 0,
               val_losses |-> <<>>]
    /\ layer = [state |-> Untrained]
    /\ disp = [best |-> NoFile, checkpoint |-> NoFile]
    /\ out = NoResult

(* lines 75-115: the training batches of the epoch and scheduler.step() *)
TrainBatches ==
    /\ pc = "batches"
    /\ layer' = [state |-> call.epoch]
    /\ pc' = "checkpoint"
    /\ UNCHANGED <<cfg, call, disp, out>>

(* lines 117-124: torch.save of the checkpoint on even epoch indices *)
SaveCheckpoint ==
    /\ pc = "checkpoint"
    /\ disp' = IF call.epoch % 2 = 0 THEN [disp EXCEPT !.checkpoint = layer.state] ELSE disp
    /\ pc' = "validate"
    /\ UNCHANGED <<cfg, call, layer, out>>

(* the next iteration of for epoch in range(epoch, epochs), or the end of  *)
(* the range, where epoch keeps its last value                             *)
NextEpoch(locals) ==
    IF locals.epoch + 1 < cfg.epochs
    THEN [pc |-> "batches", locals |-> [locals EXCEPT !.epoch = @ + 1]]
    ELSE [pc |-> "finish", locals |-> locals]

EarlyStopLate(counter, patience) == counter > patience

(* line 145: if patience_counter >= patience *)
EarlyStop(counter, patience) == counter >= patience

(* lines 126-147: validation and early stopping *)
Validate ==
    /\ pc = "validate"
    /\ IF ~cfg.val_loader
       THEN /\ pc' = NextEpoch(call).pc
            /\ call' = NextEpoch(call).locals
            /\ UNCHANGED <<disp, out>>
       ELSE \E val_loss \in Losses :
              LET seen == [call EXCEPT !.val_losses = Append(@, val_loss)]
              IN  IF Less(val_loss, call.best_val_loss)
                  THEN LET locals == [seen EXCEPT !.best_val_loss = val_loss,
                                                  !.patience_counter = 0]
                       IN  /\ disp' = [disp EXCEPT !.best = layer.state]
                           /\ pc' = NextEpoch(locals).pc
                           /\ call' = NextEpoch(locals).locals
                           /\ UNCHANGED out
                  ELSE LET locals == [seen EXCEPT !.patience_counter = @ + 1]
                       IN  IF EarlyStop(locals.patience_counter, cfg.patience)
                           THEN (* os.remove(checkpoint); break *)
                                IF disp.checkpoint = NoFile
                                THEN /\ pc' = "failed"
                                     /\ out' = Raised("FileNotFoundError")
                                     /\ call' = locals
                                     /\ UNCHANGED disp
                                ELSE /\ pc' = "finish"
                                     /\ disp' = [disp EXCEPT !.checkpoint = NoFile]
                                     /\ call' = locals
                                     /\ UNCHANGED out
                           ELSE /\ pc' = NextEpoch(locals).pc
                                /\ call' = NextEpoch(locals).locals
                                /\ UNCHANGED <<disp, out>>
    /\ UNCHANGED <<cfg, layer>>

(* lines 149-158: at the final epoch the model is saved and the checkpoint *)
(* removed if it is there; return epoch + 1                                *)
FinishTrain ==
    /\ pc = "finish"
    /\ disp' = IF call.epoch + 1 = cfg.epochs
               THEN [best |-> layer.state, checkpoint |-> NoFile]
               ELSE disp
    /\ out' = [status |-> "returned", epoch |-> call.epoch + 1]
    /\ pc' = "done"
    /\ UNCHANGED <<cfg, call, layer>>

NextTrain == TrainBatches \/ SaveCheckpoint \/ Validate \/ FinishTrain

SpecTrain == InitTrain /\ [][NextTrain]_vars

(***************************************************************************)
(* Properties of train, checked under SpecTrain.                           *)
(***************************************************************************)
(* the validation loss of epoch index e of this run *)
LossOfEpoch(e) == call.val_losses[e - cfg.epoch + 1]

ValidatedEpochs == { cfg.epoch + i - 1 : i \in 1..Len(call.val_losses) }

FiniteEpochs == { e \in ValidatedEpochs : LossOfEpoch(e) # NaN }

InLoop == pc \in {"batches", "checkpoint", "validate"}

(* C17: when train, run with a validation loader, returns, <save_name>.pt  *)
(* holds the model state of the epoch with the lowest validation loss of   *)
(* the run, whether it ended by early stopping or at the last epoch.       *)
C17_BestFileHoldsLowestLoss ==
    (pc = "done" /\ cfg.val_loader /\ FiniteEpochs # {}) =>
        /\ disp.best \in FiniteEpochs
        /\ \A e \in FiniteEpochs : LossOfEpoch(disp.best) <= LossOfEpoch(e)

(* C18: with a validation loader and patience >= 1, an epoch whose         *)
(* validation loss is strictly lower than the best so far resets the       *)
(* patience counter to 0 and does not stop the loop; every other epoch     *)
(* increments the counter by 1; the loop stops at the first epoch at which *)
(* the counter reaches patience and otherwise runs until epoch index       *)
(* epochs - 1.                                                             *)
C18_EarlyStopping ==
    /\ [](InLoop => call.patience_counter < cfg.patience)
    /\ []((pc = "done" /\ call.patience_counter < cfg.patience) =>
              call.epoch = cfg.epochs - 1)
    /\ [][ (pc = "validate" /\ cfg.val_loader) =>
              LET val_loss == call'.val_losses[Len(call'.val_losses)]
                  goes_on  == IF call.epoch < cfg.epochs - 1
                              THEN pc' = "batches" /\ call'.epoch = call.epoch + 1
                              ELSE pc' = "finish" /\ call'.epoch = call.epoch
              IN  IF Less(val_loss, call.best_val_loss)
                  THEN call'.patience_counter = 0 /\ goes_on
                  ELSE /\ call'.patience_counter = call.patience_counter + 1
                       /\ IF call'.patience_counter >= cfg.patience
                          THEN pc' \in {"finish", "failed"} /\ call'.epoch = call.epoch
                          ELSE goes_on ]_vars

C18_Witness ==
    /\ pc = "done"
    /\ cfg.patience = 2
    /\ call.patience_counter = cfg.patience
    /\ call.epoch < cfg.epochs - 1
    /\ Len(call.val_losses) = 3

(* C19: a checkpoint is written after the training batches of every even   *)
(* epoch index; when train ends, by early stopping or at the final epoch,  *)
(* the checkpoint file has been removed, and the removal never fails       *)
(* because the file is missing.                                            *)
C19_CheckpointLifecycle ==
    /\ (pc = "validate" /\ call.epoch % 2 = 0) => disp.checkpoint = call.epoch
    /\ pc = "done" => disp.checkpoint = NoFile
    /\ pc # "failed"

(***************************************************************************)
(* ExperimentSuite.fit_model (main.py, lines 220-346) for the              *)
(* configurations the command line accepts.  cfg holds the command-line    *)
(* values and the values of the model's config file they fall back to;     *)
(* out holds the steps fit_model completed and how it ended.               *)
(***************************************************************************)
Models == {"CNN", "LSTM", "BiLSTM", "GRU", "BiGRU", "DischargeBERT"}

Datasets == {"PathReports", "MimicFull", "Mimic50"}

Optimizers == {"Adam", "AdamW"}

Unset == "unset"

(* parse_boolean values of --alignment, as strings *)
Flags == {"True", "False"}

FitConfigs ==
    [model : Models, dataset : Datasets,
     optimizer : Optimizers \cup {Unset}, alignment : Flags \cup {Unset},
     file_optimizer : Optimizers, file_alignment : Flags]

(* fill_model_config, lines 209-216: a command-line value replaces the     *)
(* value of the config file                                                *)
TrainKwarg(given, from_file) == IF given # Unset THEN given ELSE from_file

(* def train(...), training.py lines 27-37 *)
TrainParameters ==
    {"model", "train_kwargs", "optimizer", "train_loader", "epoch", "transformer",
     "val_loader", "scheduler", "save_name", "return_en_scores", "att_module"}

TrainRequired == {"model", "train_kwargs", "optimizer", "train_loader"}

(* the call of train, main.py lines 318-326 *)
TrainKeywords ==
    {"model", "train_kwargs", "optimizer", "train_loader", "transformer", "val_loader",
     "class_weights", "save_name", "alignment_model"}

(* def scoring(...), training.py lines 161-168 *)
ScoringParameters ==
    {"model", "data_loader", "att_module", "transformer", "quartiles_indices",
     "individual", "return_en_scores", "path_scores"}

ScoringRequired == {"model", "data_loader", "att_module"}

(* the call of scoring, main.py lines 333-337 *)
ScoringKeywords == {"model", "data_loader", "multilabel", "transformer", "class_weights"}

(* a call by keywords binds: every keyword is a parameter and every        *)
(* parameter without default is given                                      *)
Accepts(parameters, required, keywords) ==
    keywords \subseteq parameters /\ required \subseteq keywords

Ended(steps, status, error) == [steps |-> steps, status |-> status, error |-> error]

(* the locals bound when the call of train is evaluated: Data only for a   *)
(* dataset other than PathReports (lines 255-259), alignment_model only if *)
(* alignment is true (lines 306-310), optimizer only for Adam and AdamW    *)
(* (lines 313-316)                                                         *)
BoundLocals(c) ==
    {"model", "train_loader", "val_loader", "test_loader", "save_name"}
      \cup (IF c.dataset # "PathReports" THEN {"Data"} ELSE {})
      \cup (IF TrainKwarg(c.alignment, c.file_alignment) = "True"
            THEN {"alignment_model"} ELSE {})
      \cup (IF TrainKwarg(c.optimizer, c.file_optimizer) \in Optimizers
            THEN {"optimizer"} ELSE {})

(* the locals the call of train reads *)
TrainReads == {"model", "optimizer", "train_loader", "val_loader", "save_name", "alignment_model"}

fit_model(c) ==
    LET built   == <<"build_model">>
        trained == Append(built, "train")
        loaded  == Append(trained, "load_best")
        scored  == Append(loaded, "scoring")
    IN  IF "Data" \notin BoundLocals(c) THEN Ended(<<>>, "raised", "UnboundLocalError")
        ELSE IF c.model \notin Models THEN Ended(<<>>, "raised", "Exception")
        ELSE IF ~(TrainReads \subseteq BoundLocals(c))
        THEN Ended(built, "raised", "UnboundLocalError")
        ELSE IF ~Accepts(TrainParameters, TrainRequired, TrainKeywords)
        THEN Ended(built, "raised", "TypeError")
        ELSE IF ~Accepts(ScoringParameters, ScoringRequired, ScoringKeywords)
        THEN Ended(loaded, "raised", "TypeError")
        ELSE Ended(Append(scored, "store_scores"), "returned", "none")

InitFit ==
    /\ pc = "fit"
    /\ cfg \in FitConfigs
    /\ disp = NoDispatcher
    /\ layer = NoLayer
    /\ call = NoCall
    /\ out = NoResult

(* exp.fit_model(model_args, X, Y, path_res_dir) *)
FitModel ==
    /\ pc = "fit"
    /\ out' = fit_model(cfg)
    /\ pc' = "ended"
    /\ UNCHANGED <<cfg, disp, layer, call>>

NextFit == FitModel

SpecFit == InitFit /\ [][NextFit]_vars

(* C20: for every configuration the command line accepts, fit_model runs   *)
(* these steps in order and reaches each of them: build the model, call    *)
(* train with arguments train accepts, load the saved best state, call     *)
(* scoring with arguments scoring accepts, call store_scores.              *)
C20_FitModelRunsAllSteps ==
    pc = "ended" =>
        /\ out.status = "returned"
        /\ out.steps = <<"build_model", "train", "load_best", "scoring", "store_scores">>

(***************************************************************************)
(* main.py: the command line, fill_model_config and main                   *)
(***************************************************************************)

(* the options of the command line that default to None, lines 466-507 *)
ArgOptions ==
    {"embedding_dim", "dropout_p", "batch_size", "epochs", "optimizer", "doc_max_len",
     "patience", "scale", "multihead", "num_heads", "hidden_dim", "gamma", "alignment"}

(* --task, a subset of its choices *)
Tasks == {"site", "subsite"}

(* a value of each option as the command line gives it; --hidden_dim and   *)
(* --gamma_att have no type and arrive as text                             *)
Supplied ==
    [embedding_dim |-> "300", dropout_p |-> "0.5", batch_size |-> "16", epochs |-> "50",
     optimizer |-> "AdamW", doc_max_len |-> "1000", patience |-> "5", scale |-> "True",
     multihead |-> "True", num_heads |-> "2", hidden_dim |-> "128", gamma |-> "2",
     alignment |-> "True"]

(* float(gamma) of the text of --gamma_att, as a rational *)
float(text) ==
    CASE text = "2" -> <<2, 1>>
      [] text = "0.5" -> <<1, 2>>

(* int(hidden_dim) of the text of --hidden_dim *)
int(text) ==
    CASE text = "128" -> 128
      [] text = "64" -> 64

(* att_module.split('_')[0] *)
FirstWord(att_module) ==
    CASE att_module = "hierarchical_target" -> "hierarchical"
      [] att_module = "hierarchical_label" -> "hierarchical"
      [] att_module = "hierarchical_context" -> "hierarchical"
      [] att_module = "hierarchical_double_attention" -> "hierarchical"
      [] att_module = "context_diff" -> "context"
      [] att_module = "max_masked" -> "max"
      [] att_module = "rank_masked" -> "rank"
      [] OTHER -> att_module

IsHierarchicalExact(att_module) == att_module = "hierarchical"

(* att_module.split('_')[0] == 'hierarchical' *)
IsHierarchical(att_module) == FirstWord(att_module) = "hierarchical"

(* d[key] = value on a dict *)
Put(d, key, value) == [k \in DOMAIN d \cup {key} |-> IF k = key THEN value ELSE d[k]]

(* yaml.safe_load of {model}_config.yml: entries with an option and        *)
(* entries without one                                                     *)
ModelConfigFile(model) ==
    [model_kwargs |->
        Put([k \in {"embedding_dim", "dropout_p", "scale", "multihead", "num_heads",
                    "gamma", "kernel_sizes"} |->
                CASE k = "embedding_dim" -> "100"
                  [] k = "dropout_p" -> "0.2"
                  [] k = "scale" -> "False"
                  [] k = "multihead" -> "False"
                  [] k = "num_heads" -> "1"
                  [] k = "gamma" -> <<1, 1>>
                  [] k = "kernel_sizes" -> <<3, 4, 5>>],
            IF model = "CNN" THEN "n_filters" ELSE "hidden_size",
            IF model = "CNN" THEN <<300, 300, 300>> ELSE 512),
     train_kwargs |->
        [k \in {"batch_size", "epochs", "optimizer", "doc_max_len", "patience",
                "alignment", "lr"} |->
            CASE k = "batch_size" -> "32"
              [] k = "epochs" -> "100"
              [] k = "optimizer" -> "Adam"
              [] k = "doc_max_len" -> "3000"
              [] k = "patience" -> "10"
              [] k = "alignment" -> "False"
              [] k = "lr" -> "0.001"]]

(* yaml.safe_load of datasets_config.yml *)
DatasetsConfig(dataset) ==
    IF dataset = "PathReports"
    THEN [n_labels |-> [t \in Tasks |-> <<"n_labels", t>>],
          n_cats |-> [t \in Tasks |-> <<"n_cats", t>>],
          doc_max_len |-> "1500"]
    ELSE [n_labels |-> <<"n_labels", dataset>>,
          n_cats |-> <<"n_cats", dataset>>,
          doc_max_len |-> "2500"]

(* the files under data/processed that fill_model_config loads *)
Pickle(name, dataset, embedding_dim) == <<name, dataset, embedding_dim>>

OverriddenAlways(d, key, given, value) == Put(d, key, value)

(* if <option> is not None: self._model_args[...][key] = value *)
Overridden(d, key, given, value) == IF given # Unset THEN Put(d, key, value) ELSE d

(* lines 141-149 and 171-187: the entries for the attention module *)
ExternalKwargs(m0, a, n_cats) ==
    LET m1 == IF IsHierarchical(a.att_module) THEN Put(m0, "n_cats", n_cats) ELSE m0
        m2 == IF a.att_module = "label"
              THEN Put(m1, "label_embedding_matrix",
                       Pickle("code_embedding_matrix", a.dataset, m1["embedding_dim"]))
              ELSE m1
        m3 == IF IsHierarchical(a.att_module)
              THEN Put(m2, "code2cat_map", Pickle("embedding_matrix_mapping", a.dataset, "any"))
              ELSE m2
        m4 == IF a.att_module = "hierarchical_label"
              THEN Put(Put(m3, "label_embedding_matrix",
                           Pickle("code_embedding_matrix", a.dataset, m3["embedding_dim"])),
                       "cat_embedding_matrix",
                       Pickle("cat_embedding_matrix", a.dataset, m3["embedding_dim"]))
              ELSE m3
    IN  m4

(* lines 189-216: the overrides of model_kwargs *)
ModelOverrides(m0, a) ==
    LET o  == a.opt
        m1 == Overridden(m0, "dropout_p", o["dropout_p"], o["dropout_p"])
        m2 == Overridden(m1, "scale", o["scale"], o["scale"])
        m3 == Overridden(m2, "multihead", o["multihead"], o["multihead"])
        m4 == Overridden(m3, "num_heads", o["num_heads"], o["num_heads"])
        m5 == IF o["gamma"] # Unset
              THEN Overridden(m4, "gamma", o["gamma"], float(o["gamma"])) ELSE m4
        m6 == IF o["hidden_dim"] # Unset
              THEN IF a.model = "CNN"
                   THEN Put(m5, "n_filters", [i \in 1..3 |-> int(o["hidden_dim"])])
                   ELSE Put(m5, "hidden_size", int(o["hidden_dim"]))
              ELSE m5
    IN  m6

(* lines 197-216: the overrides of train_kwargs *)
TrainOverrides(t0, a) ==
    LET o  == a.opt
        t1 == Overridden(t0, "batch_size", o["batch_size"], o["batch_size"])
        t2 == Overridden(t1, "epochs", o["epochs"], o["epochs"])
        t3 == Overridden(t2, "optimizer", o["optimizer"], o["optimizer"])
        t4 == Overridden(t3, "doc_max_len", o["doc_max_len"], o["doc_max_len"])
        t5 == Overridden(t4, "patience", o["patience"], o["patience"])
        t6 == Overridden(t5, "alignment", o["alignment"], o["alignment"])
    IN  t6

(* def fill_model_config(self, model, dataset, att_module, task, ...) *)
fill_model_config(a) ==
    LET file     == ModelConfigFile(a.model)
        datasets == DatasetsConfig(a.dataset)
        by_task  == a.dataset = "PathReports"
        m1 == Put(file.model_kwargs, "n_labels",
                  IF by_task THEN datasets.n_labels[a.task] ELSE datasets.n_labels)
        t1 == Put(file.train_kwargs, "doc_max_len",
                  IF a.model = "DischargeBERT" THEN "512" ELSE datasets.doc_max_len)
        m2 == Put(m1, "att_module", a.att_module)
        m3 == Overridden(m2, "embedding_dim", a.opt["embedding_dim"], a.opt["embedding_dim"])
        m4 == IF a.model # "DischargeBERT"
              THEN Put(m3, "embedding_matrix",
                       Pickle("embedding_matrix", a.dataset, m3["embedding_dim"]))
              ELSE m3
        m5 == ExternalKwargs(m4, a, IF by_task THEN datasets.n_cats[a.task] ELSE datasets.n_cats)
    IN  IF by_task /\ a.task \notin Tasks
        THEN Raised("KeyError")
        ELSE [status |-> "returned",
              model_kwargs |-> ModelOverrides(m5, a),
              train_kwargs |-> TrainOverrides(t1, a)]

(* the options main is run with: the ones its checks and fit_model read    *)
MainOptions ==
    { [o \in ArgOptions |->
         CASE o = "multihead" -> multihead
           [] o = "num_heads" -> num_heads
           [] o = "alignment" -> alignment
           [] OTHER -> Unset] :
      multihead \in Flags \cup {Unset}, num_heads \in {Unset, Supplied.num_heads},
      alignment \in {Unset, Supplied.alignment} }

(* args = parser.parse_args(), and whether the results path exists *)
MainArgs ==
    [model : {"CNN", "DischargeBERT"}, dataset : Datasets, att_module : {"target"},
     task : Tasks \cup {Unset}, singularity : BOOLEAN, mnt_exists : BOOLEAN,
     opt : MainOptions]

TaskMissingElsewhere(a) == a.dataset # "PathReports" /\ a.task = Unset

(* (args.dataset == 'PathReports') and (args.task is None) *)
TaskMissing(a) == a.dataset = "PathReports" /\ a.task = Unset

(* args.multihead and (args.num_heads is None) *)
HeadsMissing(a) == a.opt["multihead"] = "True" /\ a.opt["num_heads"] = Unset

(* class ExperimentSuite: __init__ *)
ExperimentSuite(model, att_module, dataset) ==
    [class |-> "ExperimentSuite", _dataset |-> dataset, _model |-> model,
     _att_module |-> att_module, _model_args |-> NoResult,
     _transformer |-> (model = "DischargeBERT")]

NoEffects == [effects |-> <<>>]

Did(effect) == [effects |-> Append(call.effects, effect)]

InitMain ==
    /\ pc = "main"
    /\ cfg \in MainArgs
    /\ disp = NoDispatcher
    /\ layer = NoLayer
    /\ call = NoEffects
    /\ out = NoResult

(* exp = ExperimentSuite(...) *)
NewSuite ==
    /\ pc = "main"
    /\ layer' = ExperimentSuite(cfg.model, cfg.att_module, cfg.dataset)
    /\ pc' = "check_task"
    /\ UNCHANGED <<cfg, disp, call, out>>

(* lines 517-519 *)
CheckTask ==
    /\ pc = "check_task"
    /\ IF TaskMissing(cfg)
       THEN out' = Raised("TypeError") /\ pc' = "ended"
       ELSE out' = out /\ pc' = "check_heads"
    /\ UNCHANGED <<cfg, disp, layer, call>>

(* lines 521-523 *)
CheckHeads ==
    /\ pc = "check_heads"
    /\ IF HeadsMissing(cfg)
       THEN out' = Raised("TypeError") /\ pc' = "ended"
       ELSE out' = out /\ pc' = "fill_model_config"
    /\ UNCHANGED <<cfg, disp, layer, call>>

(* model_args = exp.fill_model_config(...) *)
FillModelConfig ==
    /\ pc = "fill_model_config"
    /\ LET model_args == fill_model_config(cfg)
       IN  /\ call' = Did("config_files")
           /\ IF model_args.status = "returned"
              THEN /\ layer' = [layer EXCEPT !._model_args = model_args]
                   /\ out' = out
                   /\ pc' = "results_dir"
              ELSE /\ layer' = layer
                   /\ out' = model_args
                   /\ pc' = "ended"
    /\ UNCHANGED <<cfg, disp>>

(* lines 543-549: os.path.dirname of 'mnt/results/' is 'mnt/results', of   *)
(* root/results it is root, which exists                                   *)
ResultsDir ==
    /\ pc = "results_dir"
    /\ call' = IF cfg.singularity /\ ~cfg.mnt_exists THEN Did("makedirs") ELSE call
    /\ pc' = "fetch_data"
    /\ UNCHANGED <<cfg, disp, layer, out>>

(* X, Y = exp.fetch_data() *)
FetchData ==
    /\ pc = "fetch_data"
    /\ call' = Did("data")
    /\ pc' = "fit_model"
    /\ UNCHANGED <<cfg, disp, layer, out>>

(* exp.fit_model(model_args=model_args, X=X, Y=Y, path_res_dir=path_res_dir) *)
MainFitModel ==
    /\ pc = "fit_model"
    /\ out' = fit_model([model |-> cfg.model, dataset |-> cfg.dataset,
                         optimizer |-> Unset, alignment |-> Unset,
                         file_optimizer |-> layer._model_args.train_kwargs["optimizer"],
                         file_alignment |-> layer._model_args.train_kwargs["alignment"]])
    /\ pc' = "ended"
    /\ UNCHANGED <<cfg, disp, layer, call>>

NextMain ==
    \/ NewSuite
    \/ CheckTask
    \/ CheckHeads
    \/ FillModelConfig
    \/ ResultsDir
    \/ FetchData
    \/ MainFitModel

SpecMain == InitMain /\ [][NextMain]_vars

(* the argument combinations main rejects *)
InvalidCombination ==
    \/ cfg.dataset = "PathReports" /\ cfg.task = Unset
    \/ cfg.opt["multihead"] = "True" /\ cfg.opt["num_heads"] = Unset

(* C21: when the dataset is 'PathReports' without a task, or multihead is  *)
(* true without num_heads, main ends with TypeError and has read no        *)
(* configuration file, loaded no data and created no results directory.    *)
C21_InvalidArgumentsRejectedFirst ==
    InvalidCombination =>
        /\ call.effects = <<>>
        /\ pc \in {"main", "check_task", "check_heads", "ended"}
        /\ pc = "ended" => out = Raised("TypeError")

C21_Witness ==
    /\ pc = "ended"
    /\ cfg.dataset # "PathReports"
    /\ cfg.opt["multihead"] = "True" /\ cfg.opt["num_heads"] = Unset
    /\ out = Raised("TypeError")
    /\ call.effects = <<>>

(* every pattern of supplied and omitted options *)
OptionPatterns ==
    { [o \in ArgOptions |-> IF o \in given THEN Supplied[o] ELSE Unset] :
      given \in SUBSET ArgOptions }

(* the calls of fill_model_config: every pattern of options for one        *)
(* attention module, and every attention module, dataset and task with no  *)
(* option or all of them                                                   *)
ConfigArgs ==
    [model : {"CNN", "DischargeBERT"}, dataset : {"Mimic50"}, att_module : {"target"},
     task : {Unset}, opt : OptionPatterns]
    \cup
    [model : {"CNN"}, dataset : Datasets, att_module : VariantNames,
     task : Tasks \cup {Unset},
     opt : {[o \in ArgOptions |-> Unset], [o \in ArgOptions |-> Supplied[o]]}]

InitConfig ==
    /\ pc = "fill_model_config"
    /\ cfg \in ConfigArgs
    /\ disp = NoDispatcher
    /\ layer = NoLayer
    /\ call = NoEffects
    /\ out = NoResult

(* exp.fill_model_config(...) returns or raises *)
FillConfig ==
    /\ pc = "fill_model_config"
    /\ out' = fill_model_config(cfg)
    /\ pc' = "configured"
    /\ UNCHANGED <<cfg, disp, layer, call>>

NextConfig == FillConfig

SpecConfig == InitConfig /\ [][NextConfig]_vars

(* the options the claim lists, by the dict they go to *)
ModelOptions == {"dropout_p", "scale", "multihead", "num_heads", "gamma", "embedding_dim"}

TrainOptions == {"batch_size", "epochs", "optimizer", "doc_max_len", "patience", "alignment"}

(* the value an option was supplied with; the text of --gamma_att counts   *)
(* as the number it denotes                                                *)
CommandLineValue(option) ==
    IF option = "gamma" THEN float(cfg.opt[option]) ELSE cfg.opt[option]

(* an entry of the config file follows its option: the command-line value  *)
(* if supplied, else the value from_file                                   *)
Follows(kwargs, option, from_file) ==
    kwargs[option] = IF cfg.opt[option] # Unset THEN CommandLineValue(option) ELSE from_file

(* the entries of the config file that none of the listed options names    *)
(* keep their value unless --hidden_dim, the option of n_filters and       *)
(* hidden_size, was supplied                                               *)
OtherEntriesKept(kwargs, from_file, listed) ==
    \A key \in DOMAIN from_file \ listed :
        (key \in {"n_filters", "hidden_size"} => cfg.opt["hidden_dim"] = Unset)
            => kwargs[key] = from_file[key]

FilledConfig == pc = "configured" /\ out.status = "returned"

(* C22 as stated: each listed entry of the result holds the command-line   *)
(* value if its option was supplied and the value of the model's config    *)
(* file otherwise, and every other entry whose option was not supplied     *)
(* holds its config-file value.                                            *)
C22_OptionsReplaceFileValues ==
    FilledConfig =>
        LET file == ModelConfigFile(cfg.model)
        IN  /\ \A o \in ModelOptions : Follows(out.model_kwargs, o, file.model_kwargs[o])
            /\ \A o \in TrainOptions : Follows(out.train_kwargs, o, file.train_kwargs[o])
            /\ OtherEntriesKept(out.model_kwargs, file.model_kwargs, ModelOptions)
            /\ OtherEntriesKept(out.train_kwargs, file.train_kwargs, TrainOptions)

(* C22 amended: as stated, except that doc_max_len without its option is   *)
(* 512 for the DischargeBERT model and the doc_max_len of the dataset's    *)
(* config for every other model, whatever the model's config file holds.   *)
C22_OptionsReplaceFileValuesButDocMaxLen ==
    FilledConfig =>
        LET file == ModelConfigFile(cfg.model)
            doc_max_len == IF cfg.model = "DischargeBERT" THEN "512"
                           ELSE DatasetsConfig(cfg.dataset).doc_max_len
        IN  /\ \A o \in ModelOptions : Follows(out.model_kwargs, o, file.model_kwargs[o])
            /\ \A o \in TrainOptions \ {"doc_max_len"} :
                   Follows(out.train_kwargs, o, file.train_kwargs[o])
            /\ Follows(out.train_kwargs, "doc_max_len", doc_max_len)
            /\ OtherEntriesKept(out.model_kwargs, file.model_kwargs, ModelOptions)
            /\ OtherEntriesKept(out.train_kwargs, file.train_kwargs, TrainOptions)

C22_Witness ==
    /\ FilledConfig
    /\ cfg.model = "DischargeBERT"
    /\ cfg.opt["doc_max_len"] = Unset /\ out.train_kwargs["doc_max_len"] = "512"
    /\ cfg.opt["epochs"] # Unset /\ out.train_kwargs["epochs"] = cfg.opt["epochs"]
    /\ cfg.opt["gamma"] # Unset /\ out.model_kwargs["gamma"] = <<2, 1>>
    /\ cfg.opt["dropout_p"] = Unset
    /\ out.model_kwargs["dropout_p"] = ModelConfigFile(cfg.model).model_kwargs["dropout_p"]

(* the entries of model_kwargs that are external inputs of a variant *)
ExternalKeys == {"n_cats", "code2cat_map", "label_embedding_matrix", "cat_embedding_matrix"}

(* the external inputs each variant needs *)
NeededInputs(att_module) ==
    (IF att_module \in HierarchicalNames THEN {"n_cats", "code2cat_map"} ELSE {})
      \cup (IF att_module \in {"label", "hierarchical_label"}
            THEN {"label_embedding_matrix"} ELSE {})
      \cup (IF att_module = "hierarchical_label" THEN {"cat_embedding_matrix"} ELSE {})

(* C26: for every variant name, the external inputs found in the           *)
(* model_kwargs that fill_model_config returns are the ones the variant    *)
(* needs: n_cats and code2cat_map for the four hierarchical variants,      *)
(* label_embedding_matrix for 'label' and 'hierarchical_label',            *)
(* cat_embedding_matrix for 'hierarchical_label', and no others.           *)
C26_ExternalInputsOfVariant ==
    FilledConfig =>
        DOMAIN out.model_kwargs \cap ExternalKeys = NeededInputs(cfg.att_module)

C26_Witness ==
    /\ FilledConfig
    /\ cfg.att_module = "hierarchical_label"
    /\ cfg.dataset = "PathReports"
    /\ ExternalKeys \subseteq DOMAIN out.model_kwargs
    /\ out.model_kwargs["n_cats"] = <<"n_cats", cfg.task>>

(***************************************************************************)
(* tools/utils_preprocess.py: rel2abs and get_class_type.  A str is the    *)
(* sequence of its characters.                                             *)
(***************************************************************************)

(* the longest code *)
MaxCodeLen == 5

(* the longest class list *)
MaxClasses == 2

Digits == {"1", "2"}

(* the strings of digits with exactly n characters *)
DigitStrings(n) == [1..n -> Digits]

(* relative ICD-9 codes: a procedure code has 2 to 4 digits; a diagnosis   *)
(* code has a digit or 'V' and 2 to 4 more digits, or 'E' and 3 or 4 more  *)
Rel2absInputs ==
    { [x |-> x, flag_proc |-> TRUE] :
        x \in UNION { DigitStrings(n) : n \in 2..(MaxCodeLen - 1) } }
    \cup
    { [x |-> <<first>> \o rest, flag_proc |-> FALSE] :
        first \in {"1", "V"},
        rest \in UNION { DigitStrings(n) : n \in 2..(MaxCodeLen - 1) } }
    \cup
    { [x |-> <<"E">> \o rest, flag_proc |-> FALSE] :
        rest \in UNION { DigitStrings(n) : n \in 3..(MaxCodeLen - 1) } }

Min(a, b) == IF a <= b THEN a ELSE b

(* x[:n] *)
Prefix(x, n) == SubSeq(x, 1, Min(n, Len(x)))

(* x[n:] *)
Suffix(x, n) == SubSeq(x, n + 1, Len(x))

Returns(value) == [status |-> "returned", value |-> value]

rel2absPeriodAfterThird(x, flag_proc) ==
    IF flag_proc
    THEN IF Len(x) = 2 THEN Returns(x) ELSE Returns(Prefix(x, 2) \o <<".">> \o Suffix(x, 2))
    ELSE IF Len(x) = 3 THEN Returns(x)
    ELSE Returns(Prefix(x, 3) \o <<".">> \o Suffix(x, 3))

(* def rel2abs(x: str, flag_proc: bool = True) -> str *)
rel2abs(x, flag_proc) ==
    IF flag_proc
    THEN IF Len(x) = 2 THEN Returns(x) ELSE Returns(Prefix(x, 2) \o <<".">> \o Suffix(x, 2))
    ELSE IF Len(x) = 3 THEN Returns(x)
    ELSE IF Len(x) = 0 THEN Raised("IndexError")
    ELSE IF x[1] = "E" THEN Returns(Prefix(x, 4) \o <<".">> \o Suffix(x, 4))
    ELSE Returns(Prefix(x, 3) \o <<".">> \o Suffix(x, 3))

InitRel2abs ==
    /\ pc = "rel2abs"
    /\ cfg \in Rel2absInputs
    /\ disp = NoDispatcher
    /\ layer = NoLayer
    /\ call = NoEffects
    /\ out = NoResult

Rel2abs ==
    /\ pc = "rel2abs"
    /\ out' = rel2abs(cfg.x, cfg.flag_proc)
    /\ pc' = "done"
    /\ UNCHANGED <<cfg, disp, layer, call>>

NextRel2abs == Rel2abs

SpecRel2abs == InitRel2abs /\ [][NextRel2abs]_vars

(* y is x with one period put in after its n-th character *)
PeriodAfter(x, n, y) ==
    /\ n <= Len(x)
    /\ Len(y) = Len(x) + 1
    /\ y[n + 1] = "."
    /\ \A i \in 1..Len(x) : x[i] = IF i <= n THEN y[i] ELSE y[i + 1]

Classes ==
    UNION { [1..n -> {"1"}] : n \in 1..MaxCodeLen }
    \cup
    UNION { { [i \in 1..n |-> IF i = p THEN "." ELSE "1"] : p \in 2..(n - 1) } :
            n \in 3..MaxCodeLen }

ClassLists == UNION { [1..n -> Classes] : n \in 0..MaxClasses }

GetClassTypeInputs == [classes_list : ClassLists, code : BOOLEAN]

(* '.' in x *)
HasPeriod(x) == \E i \in 1..Len(x) : x[i] = "."

(* the branch a class takes in the loop of get_class_type; x[i] beyond the *)
(* end of x raises IndexError                                              *)
ClassBranch(x, code) ==
    IF code /\ HasPeriod(x)
    THEN IF Len(x) < 3 THEN "IndexError"
         ELSE IF x[3] = "." THEN "proc"
         ELSE IF Len(x) < 4 THEN "IndexError"
         ELSE IF x[4] = "." THEN "diag"
         ELSE IF Len(x) < 5 THEN "IndexError"
         ELSE IF x[5] = "." THEN "diag"
         ELSE "neither"
    ELSE IF Len(x) = 2 THEN "proc"
         ELSE IF Len(x) = 3 \/ Len(x) = 4 THEN "diag"
         ELSE "neither"

RECURSIVE Appended(_, _, _)
(* the classes of one branch, in the order of the loop *)
Appended(classes_list, code, branch) ==
    IF classes_list = <<>> THEN <<>>
    ELSE (IF ClassBranch(Head(classes_list), code) = branch
          THEN <<Head(classes_list)>> ELSE <<>>)
         \o Appended(Tail(classes_list), code, branch)

(* def get_class_type(classes_list: List[str], code: bool=True) *)
get_class_type(classes_list, code) ==
    IF \E i \in 1..Len(classes_list) : ClassBranch(classes_list[i], code) = "IndexError"
    THEN Raised("IndexError")
    ELSE Returns(<<Appended(classes_list, code, "proc"), Appended(classes_list, code, "diag")>>)

InitClassType ==
    /\ pc = "get_class_type"
    /\ cfg \in GetClassTypeInputs
    /\ disp = NoDispatcher
    /\ layer = NoLayer
    /\ call = NoEffects
    /\ out = NoResult

GetClassType ==
    /\ pc = "get_class_type"
    /\ out' = get_class_type(cfg.classes_list, cfg.code)
    /\ pc' = "done"
    /\ UNCHANGED <<cfg, disp, layer, call>>

NextClassType == GetClassType

SpecClassType == InitClassType /\ [][NextClassType]_vars

(* the 0-based index of the period of x, or -1 *)
PeriodIndex(x) ==
    IF HasPeriod(x) THEN (CHOOSE i \in 1..Len(x) : x[i] = ".") - 1 ELSE -1

(* the classes the claim calls procedures *)
IsProcedure(x, code) ==
    IF code /\ HasPeriod(x) THEN PeriodIndex(x) = 2 ELSE Len(x) = 2

(* the classes the claim calls diagnoses *)
IsDiagnosis(x, code) ==
    IF code /\ HasPeriod(x) THEN PeriodIndex(x) \in {3, 4} ELSE Len(x) \in {3, 4}

(* list is the subsequence of classes_list that satisfies Test(_, code) *)
IsSelection(list, classes_list, code, Test(_, _)) ==
    \E keep \in SUBSET (1..Len(classes_list)) :
        /\ \A i \in 1..Len(classes_list) : i \in keep <=> Test(classes_list[i], code)
        /\ Len(list) = Cardinality(keep)
        /\ \A i \in 1..Len(list) :
               \E k \in keep :
                   /\ Cardinality({j \in keep : j <= k}) = i
                   /\ list[i] = classes_list[k]

MaxTokens == 2

(* the largest min_freq *)
MaxFreq == 3

(* splits = ['train', 'test', 'val'] *)
splits == <<"train", "test", "val">>

(* the tokens of the training split, in lexicographic order, and a token   *)
(* that only the other splits hold                                         *)
TrainTokens == <<"a", "b">>

OtherToken == "c"

Range(seq) == { seq[i] : i \in 1..Len(seq) }

(* the TEXT column of a split: one token list per row *)
TrainTexts ==
    [1..2 -> UNION { [1..n -> Range(TrainTokens)] : n \in 0..MaxTokens }]

OtherTexts ==
    [1..1 -> UNION { [1..n -> Range(TrainTokens) \cup {OtherToken}] : n \in 0..1 }]

SplitsInputs == [train : TrainTexts, test : OtherTexts, val : OtherTexts, min_freq : 1..MaxFreq]

(* the occurrences of token in an iterator of token lists *)
Frequency(iterator, token) ==
    Cardinality({ p \in UNION { { <<row, i>> : i \in 1..Len(iterator[row]) } :
                                row \in 1..Len(iterator) } :
                  iterator[p[1]][p[2]] = token })

(* the position of token in the lexicographic order *)
Rank(token) ==
    CASE token = "a" -> 1
      [] token = "b" -> 2
      [] token = "c" -> 3
      [] token = "<pad>" -> 4
      [] token = "<unk>" -> 5

build_vocab_from_iteratorAbove(iterator, min_freq, specials) ==
    LET seen == UNION { Range(iterator[row]) : row \in 1..Len(iterator) } \ Range(specials)
        kept == { t \in seen : Frequency(iterator, t) > min_freq }
        Before(u, t) ==
            \/ Frequency(iterator, u) > Frequency(iterator, t)
            \/ Frequency(iterator, u) = Frequency(iterator, t) /\ Rank(u) < Rank(t)
        place(t) == 1 + Cardinality({ u \in kept : Before(u, t) })
    IN  specials \o [i \in 1..Cardinality(kept) |-> CHOOSE t \in kept : place(t) = i]

(* torchtext's build_vocab_from_iterator: the specials first, then the     *)
(* tokens that occur at least min_freq times, by falling frequency and,    *)
(* among equals, in lexicographic order; the value is the list of tokens,  *)
(* the index of a token is its place counted from 0                        *)
build_vocab_from_iterator(iterator, min_freq, specials) ==
    LET seen == UNION { Range(iterator[row]) : row \in 1..Len(iterator) } \ Range(specials)
        kept == { t \in seen : Frequency(iterator, t) >= min_freq }
        Before(u, t) ==
            \/ Frequency(iterator, u) > Frequency(iterator, t)
            \/ Frequency(iterator, u) = Frequency(iterator, t) /\ Rank(u) < Rank(t)
        place(t) == 1 + Cardinality({ u \in kept : Before(u, t) })
    IN  specials \o [i \in 1..Cardinality(kept) |-> CHOOSE t \in kept : place(t) = i]

(* vocab.lookup_indices(tokens) with the default index default_index *)
lookup_indices(vocab, default_index, tokens) ==
    [i \in 1..Len(tokens) |->
        IF tokens[i] \in Range(vocab)
        THEN (CHOOSE k \in 1..Len(vocab) : vocab[k] = tokens[i]) - 1
        ELSE default_index]

NoVocab == [defined |-> FALSE]

NoSplits == [stored |-> {}, X |-> [s \in Range(splits) |-> <<>>]]

(* the loop variable, and the rows of the current split *)
AtSplit(i) == [split |-> i, TEXT |-> IF i <= Len(splits) THEN cfg[splits[i]] ELSE <<>>]

InitSplits ==
    /\ pc = "split"
    /\ cfg \in SplitsInputs
    /\ disp = NoDispatcher
    /\ layer = NoVocab
    /\ call = [split |-> 1, TEXT |-> <<>>]
    /\ out = NoSplits

(* lines 222-240: df_split_X = df_split[['TEXT']].copy(), or the loop ends *)
SelectSplit ==
    /\ pc = "split"
    /\ IF call.split > Len(splits)
       THEN pc' = "done" /\ call' = call
       ELSE /\ call' = AtSplit(call.split)
            /\ pc' = IF splits[call.split] = "train" THEN "vocab" ELSE "map"
    /\ UNCHANGED <<cfg, disp, layer, out>>

(* lines 243-254 *)
BuildVocab ==
    /\ pc = "vocab"
    /\ layer' = [defined |-> TRUE,
                 vocab |-> build_vocab_from_iterator(call.TEXT, cfg.min_freq,
                                                     <<"<pad>", "<unk>">>),
                 default_index |-> 1]
    /\ pc' = "map"
    /\ UNCHANGED <<cfg, disp, call, out>>

(* lines 257-258; vocab is unbound before the training split has built it *)
MapTokens ==
    /\ pc = "map"
    /\ IF layer.defined
       THEN /\ out' = [stored |-> out.stored \cup {splits[call.split]},
                       X |-> [out.X EXCEPT ![splits[call.split]] =
                                [row \in 1..Len(call.TEXT) |->
                                    lookup_indices(layer.vocab, layer.default_index,
                                                   call.TEXT[row])]]]
            /\ pc' = "labels"
       ELSE /\ out' = out
            /\ pc' = "NameError"
    /\ UNCHANGED <<cfg, disp, layer, call>>

(* lines 264-270: the labels of the split, then the next split *)
EncodeLabels ==
    /\ pc = "labels"
    /\ call' = [split |-> call.split + 1, TEXT |-> <<>>]
    /\ pc' = "split"
    /\ UNCHANGED <<cfg, disp, layer, out>>

NextSplits ==
    \/ SelectSplit
    \/ BuildVocab
    \/ MapTokens
    \/ EncodeLabels

SpecSplits == InitSplits /\ [][NextSplits]_vars

(* token occurs at least min_freq times in the training split *)
Frequent(token) == Frequency(cfg.train, token) >= cfg.min_freq

(* the stored indices of split s are the ones the vocabulary gives: a      *)
(* token frequent in training has its own index above 1, any other token   *)
(* has index 1                                                             *)
MappedByTraining(s) ==
    /\ Len(out.X[s]) = Len(cfg[s])
    /\ \A row \in 1..Len(cfg[s]) :
           /\ Len(out.X[s][row]) = Len(cfg[s][row])
           /\ \A i \in 1..Len(cfg[s][row]) :
                  LET token == cfg[s][row][i]
                      index == out.X[s][row][i]
                  IN  IF Frequent(token)
                      THEN index > 1 /\ layer.vocab[index + 1] = token
                      ELSE index = 1

(* C23: once a split is mapped the vocabulary exists, holds '<pad>' at     *)
(* index 0, '<unk>' at index 1 and after them exactly the tokens seen at   *)
(* least min_freq times in the training split; every mapped split was      *)
(* mapped with it, a token not frequent in training to index 1; and no     *)
(* step after the first mapping changes the vocabulary.                    *)
C23_VocabularyFromTrainingFirst ==
    /\ [](out.stored # {} =>
            /\ layer.defined
            /\ layer.vocab[1] = "<pad>" /\ layer.vocab[2] = "<unk>"
            /\ Range(SubSeq(layer.vocab, 3, Len(layer.vocab)))
                   = { t \in Range(TrainTokens) : Frequent(t) }
            /\ \A s \in out.stored : MappedByTraining(s))
    /\ [][out.stored # {} => layer' = layer]_vars
    /\ [](pc # "NameError")

C23_Witness ==
    /\ pc = "done"
    /\ out.stored = Range(splits)
    /\ cfg.val = << <<OtherToken>> >> /\ out.X["val"] = << <<1>> >>
    /\ cfg.test = << <<"b">> >> /\ out.X["test"] = << <<2>> >>
    /\ \E row \in 1..2 : \E i \in 1..Len(cfg.train[row]) :
           cfg.train[row][i] = "a" /\ out.X["train"][row][i] = 1

====
